---- MODULE Spec2Model ----
(***************************************************************************)
(* Gas-concentration pipeline of sensorDataAnalyzer:                       *)
(*   calculateGasConcVsTime    (src/src/utils/gasCalculations.js 11-109)   *)
(*   identifyGasExposureEvents (src/src/utils/gasCalculations.js 118-178)  *)
(*   interpolateGasConcentration (src/src/utils/gasCalculations.js 187-206)*)
(* and their caller, the time-series analysis service:                     *)
(*   runTimeSeriesAnalysis     (src/unnamed/part_001 26-123)               *)
(*   processAllTimeSeriesFiles (src/unnamed/part_001 129-266)              *)
(*   parseGasFlowFile          (src/unnamed/part_002 56-94)                *)
(*   timeStringToMinutes       (src/src/utils/dateTimeUtils.js 9-42)       *)
(*                                                                         *)
(* Numbers.  A concentration is a JavaScript double obtained as            *)
(* gasConcCyl2 * targetGasFlow / totalFlowrate over small integers, or     *)
(* Infinity.  It is kept as a reduced fraction <<num, den>> with den >= 0: *)
(* <<0, 1>> is 0 and <<1, 0>> is Infinity.  Two such quotients are the     *)
(* same double exactly when they are the same reduced fraction.            *)
(*                                                                         *)
(* Seconds are counted in ticks of half a second, so that currentTime-     *)
(* Seconds (a sum of such durations) is exact.  A time_min value is one of *)
(*   fl(s / 60)                  for a tick count n (s = n/2), or          *)
(*   fl(fl(s / 60) + fl(1 / 60)) the "one second later" point of line 60,  *)
(* where fl is IEEE-754 double rounding.  The second is not always the     *)
(* double fl((s + 1) / 60): it can be one step above or below it.  A       *)
(* time_min is kept as an integer code that preserves order and equality   *)
(* of these doubles: 3 * n for fl(n/2/60), and 3 * (n + 2) + r for the sum *)
(* taken at n ticks, r in {-1, 0, 1} being the sign of the rounding error  *)
(* (RoundsUp, RoundsDown: computed with IEEE-754 doubles for 0..130 ticks, *)
(* where the sum always lies strictly between fl((s+0.5)/60) and           *)
(* fl((s+1.5)/60)).                                                        *)
(***************************************************************************)
EXTENDS Integers, Sequences, FiniteSets, TLC

VARIABLES
    pc,                  \* position in the pipeline
    gasFlowData,         \* input: sequence of [targetGasFlow, durationSeconds]
    config,              \* input: [totalFlowrate, gasConcCyl2]
    i,                   \* calculateGasConcVsTime: loop index (steps consumed)
    currentTimeSeconds,  \* calculateGasConcVsTime: in ticks
    currentConcentration,\* calculateGasConcVsTime
    calculatedProfile,   \* calculateGasConcVsTime: points before deduplication
    gasConcProfile,      \* the profile handed to the extractor and the sampler
    k,                   \* identifyGasExposureEvents: points scanned
    activeEvent,         \* identifyGasExposureEvents: <<>> (null) or <<event>>
    events,              \* identifyGasExposureEvents: events pushed so far
    targetTimeMin,       \* interpolateGasConcentration: last query time
    resultConc,          \* interpolateGasConcentration: last result
    gasFlowFileObject,   \* run input: <<>> (no file) or <<gas-flow file>>
    timeSeriesFiles,     \* run input: categorizedTimeSeriesFiles
    currentConfig,       \* run input: gasConcCyl2, totalFlowrate, refTimeStr
    refTimeMinutes,      \* runTimeSeriesAnalysis / processAllTimeSeriesFiles
    gasConcAvailable,    \* gasFlowSuccessfullyProcessed
    fileIdx,             \* processAllTimeSeriesFiles: files consumed
    sensorDataTablesResult, \* processAllTimeSeriesFiles: tables pushed so far
    fileLocals,          \* processAllTimeSeriesFiles: locals of the last file
    published,           \* what the callbacks received, <<>> when not called
    returned             \* "pending", or the value runTimeSeriesAnalysis returned

runVars == <<gasFlowFileObject, timeSeriesFiles, currentConfig, refTimeMinutes,
             gasConcAvailable, fileIdx, sensorDataTablesResult, fileLocals,
             published, returned>>

vars == <<pc, gasFlowData, config, i, currentTimeSeconds, currentConcentration,
          calculatedProfile, gasConcProfile, k, activeEvent, events,
          targetTimeMin, resultConc, gasFlowFileObject, timeSeriesFiles,
          currentConfig, refTimeMinutes, gasConcAvailable, fileIdx,
          sensorDataTablesResult, fileLocals, published, returned>>

---------------------------------------------------------------------------
\* Bounds of the model.
MaxSteps == 2        \* FlowSteps in gasFlowData
MaxDuration == 3     \* ticks in a step's durationSeconds
MaxPoints == 4       \* points in an arbitrary profile

---------------------------------------------------------------------------
\* Numbers.

Abs(n) == IF n < 0 THEN 0 - n ELSE n

RECURSIVE GCD(_, _)
GCD(a, b) == IF b = 0 THEN a ELSE GCD(b, a % b)

\* n / d for d # 0, as a reduced fraction with a positive denominator.
Quotient(n, d) ==
    LET g == GCD(Abs(n), Abs(d))
        s == IF d < 0 THEN 0 - 1 ELSE 1
    IN  <<(s * n) \div g, (s * d) \div g>>

Zero == <<0, 1>>
Infinity == <<1, 0>>
Num(n) == <<n, 1>>
\* A number that may be NaN: <<>> is NaN, <<t>> is the time t; a
\* concentration (a pair) is never NaN.
NaN == <<>>
isNaN(x) == x = NaN
\* c > 0 on doubles
Positive(c) == c[1] > 0

\* Ticks in one second.
OneSecond == 2

\* Tick counts n at which fl(fl(n/2/60) + fl(1/60)) is above, resp. below,
\* fl((n/2 + 1)/60).
RoundsUp == {3, 62, 63, 66, 67, 70, 71, 74, 77, 78, 81, 82, 85, 86, 89, 92,
             93, 96, 97, 100, 101, 104, 107, 108, 111, 112, 115, 116}
RoundsDown == {10, 11, 21, 22, 44, 122, 123, 130}

\* currentTimeSeconds / 60
TimeMin(ticks) == 3 * ticks

\* (currentTimeSeconds / 60) + oneSecondInMinutes
PlusOneSecond(ticks) ==
    3 * (ticks + OneSecond)
      + (IF ticks \in RoundsUp THEN 1 ELSE IF ticks \in RoundsDown THEN 0 - 1 ELSE 0)

Point(t, c) == [time_min |-> t, conc |-> c]
Origin == Point(0, Zero)
Last(s) == s[Len(s)]

---------------------------------------------------------------------------
\* calculateGasConcVsTime

\* mutant: the zero-flowrate branch without the test of the step's flow
StepConcentrationNoFlowTest(cfg, step) ==
    IF cfg.totalFlowrate = 0
    THEN IF cfg.gasConcCyl2 > 0 THEN Infinity ELSE Zero
    ELSE Quotient(cfg.gasConcCyl2 * step.targetGasFlow, cfg.totalFlowrate)

\* lines 33-38: the concentration of a step
StepConcentration(cfg, step) ==
    IF cfg.totalFlowrate = 0
    THEN IF cfg.gasConcCyl2 > 0 /\ step.targetGasFlow > 0 THEN Infinity ELSE Zero
    ELSE Quotient(cfg.gasConcCyl2 * step.targetGasFlow, cfg.totalFlowrate)

\* lines 49-50: the inner guard whose branch does nothing
GuardHit(profile, ticks, previousConcentration) ==
    /\ Len(profile) > 0
    /\ Last(profile).time_min = TimeMin(ticks)
    /\ Last(profile).conc = previousConcentration

\* mutant: Point 1 is also entered when the last point is at the current time
Point1ConditionAtOrBefore(profile, ticks, previousConcentration) ==
    \/ Len(profile) = 0
    \/ Last(profile).time_min <= TimeMin(ticks)

\* lines 43-46: the condition under which Point 1 is considered
Point1Condition(profile, ticks, previousConcentration) ==
    \/ Len(profile) = 0
    \/ Last(profile).time_min < TimeMin(ticks)
    \/ /\ Last(profile).time_min = TimeMin(ticks)
       /\ Last(profile).conc # previousConcentration

\* lines 43-54: Point 1, the end of the previous concentration period
Point1(profile, ticks, previousConcentration) ==
    IF Point1Condition(profile, ticks, previousConcentration)
    THEN IF GuardHit(profile, ticks, previousConcentration)
         THEN profile
         ELSE Append(profile, Point(TimeMin(ticks), previousConcentration))
    ELSE profile

\* mutant: the new concentration starts at the transition, not a second later
Point2NoDelay(profile, ticks, previousConcentration, newConcentration) ==
    IF newConcentration # previousConcentration
    THEN Append(profile, Point(TimeMin(ticks), newConcentration))
    ELSE IF Last(profile).conc # newConcentration
         THEN Append(profile, Point(TimeMin(ticks), newConcentration))
         ELSE profile

\* mutant: the point one second later is emitted for every step
Point2Always(profile, ticks, previousConcentration, newConcentration) ==
    Append(profile, Point(PlusOneSecond(ticks), newConcentration))

\* lines 58-72: Point 2, the start of the new concentration period
Point2(profile, ticks, previousConcentration, newConcentration) ==
    IF newConcentration # previousConcentration
    THEN Append(profile, Point(PlusOneSecond(ticks), newConcentration))
    ELSE IF Last(profile).conc # newConcentration
         THEN Append(profile, Point(PlusOneSecond(ticks), newConcentration))
         ELSE profile

\* lines 75-79: Point 3, the end of the new concentration period
Point3(profile, ticks, newConcentration) ==
    Append(profile, Point(TimeMin(ticks), newConcentration))

\* lines 84-93: drop every point equal to the one before it
RECURSIVE DedupFrom(_, _, _)
DedupFrom(profile, j, acc) ==
    IF j > Len(profile) THEN acc
    ELSE DedupFrom(profile, j + 1,
            IF \/ profile[j].time_min # profile[j - 1].time_min
               \/ profile[j].conc # profile[j - 1].conc
            THEN Append(acc, profile[j])
            ELSE acc)

\* mutant: no deduplication
DeduplicateNothing(profile) == profile

Deduplicate(profile) ==
    IF Len(profile) > 0 THEN DedupFrom(profile, 2, <<profile[1]>>) ELSE <<>>

\* lines 94-105: make the profile start at (0, 0)
EnsureStartsAtOrigin(finalProfile) ==
    IF \/ Len(finalProfile) = 0
       \/ finalProfile[1].time_min # 0
       \/ finalProfile[1].conc # Zero
    THEN LET unshifted == <<Origin>> \o finalProfile
         IN  IF /\ Len(unshifted) > 1
                /\ unshifted[1].time_min = unshifted[2].time_min
                /\ unshifted[1].conc = unshifted[2].conc
             THEN Tail(unshifted)
             ELSE unshifted
    ELSE finalProfile

\* mutant: an empty array is returned for no input
EmptyInputProfileNone == <<>>

\* lines 21-24: the profile returned for no input
EmptyInputProfile == <<Origin>>

\* lines 82-108
FinalProfile(profile) == EnsureStartsAtOrigin(Deduplicate(profile))

---------------------------------------------------------------------------
\* identifyGasExposureEvents

\* mutant: every event starts at time 0
NewEventAtZero(point) ==
    [startTime |-> 0, concentration |-> point.conc, endTime |-> point.time_min]

\* lines 127-131, 148-152
NewEvent(point) ==
    [startTime |-> point.time_min, concentration |-> point.conc,
     endTime |-> point.time_min]

\* mutant: a zero-length event counts as having a duration
HasDurationOrNone(ev) == ev.endTime >= ev.startTime

\* lines 143, 161: the event has a duration
HasDuration(ev) == ev.endTime > ev.startTime

\* mutant: a point at the active endTime extends the event too
ContinuesAtSameTime(point, ev) ==
    point.conc = ev.concentration /\ point.time_min >= ev.endTime

\* line 135: the point continues the active event
Continues(point, ev) ==
    point.conc = ev.concentration /\ point.time_min > ev.endTime

\* line 137: the point closes the active event
Closes(point, ev) ==
    point.conc # ev.concentration \/ point.time_min <= ev.endTime

\* mutant: the closed event is pushed without the test of its duration
PushClosedAlways(evs, ev) == Append(evs, ev)

\* lines 143-145: push the closed event if it has a duration
PushClosed(evs, ev) == IF HasDuration(ev) THEN Append(evs, ev) ELSE evs

\* mutant: a close always returns to idle
AfterCloseIdle(point) == <<>>

\* lines 147-155: the active event after a close
AfterClose(point) == IF Positive(point.conc) THEN <<NewEvent(point)>> ELSE <<>>

\* lines 125-157: one iteration of the scan; active is <<>> or <<event>>
ScanStep(point, active, evs) ==
    IF Positive(point.conc) /\ active = <<>>
    THEN [activeEvent |-> <<NewEvent(point)>>, events |-> evs]
    ELSE IF active # <<>>
         THEN IF Continues(point, active[1])
              THEN [activeEvent |-> <<[active[1] EXCEPT !.endTime = point.time_min]>>,
                    events |-> evs]
              ELSE IF Closes(point, active[1])
                   THEN [activeEvent |-> AfterClose(point),
                         events |-> PushClosed(evs, active[1])]
                   ELSE [activeEvent |-> active, events |-> evs]
         ELSE [activeEvent |-> active, events |-> evs]

\* mutant: any pushed event counts as the active one
AlreadyAddedAny(evs, ev) == Len(evs) > 0

\* lines 163-171: the last pushed event is the active one
AlreadyAdded(evs, ev) ==
    /\ Len(evs) > 0
    /\ Last(evs).startTime = ev.startTime
    /\ Last(evs).concentration = ev.concentration
    /\ Last(evs).endTime = ev.endTime

\* lines 161-177: the events returned at the end of the input
FinalEvents(active, evs) ==
    IF active # <<>> /\ HasDuration(active[1])
    THEN IF AlreadyAdded(evs, active[1]) THEN evs ELSE Append(evs, active[1])
    ELSE evs

---------------------------------------------------------------------------
\* interpolateGasConcentration

\* mutant: a point at exactly the target time is not taken
RECURSIVE HoldFromStrict(_, _, _, _)
HoldFromStrict(concProfile, t, j, res) ==
    IF j > Len(concProfile) THEN res
    ELSE IF concProfile[j].time_min < t
         THEN HoldFromStrict(concProfile, t, j + 1, concProfile[j].conc)
         ELSE res

\* lines 196-205: the loop, from index j with resultConc = res
RECURSIVE HoldFrom(_, _, _, _)
HoldFrom(concProfile, t, j, res) ==
    IF j > Len(concProfile) THEN res
    ELSE IF concProfile[j].time_min <= t
         THEN HoldFrom(concProfile, t, j + 1, concProfile[j].conc)
         ELSE res

\* lines 187-206; target is NaN or <<t>>
interpolateGasConcentration(concProfile, target) ==
    IF isNaN(target) THEN NaN
    ELSE IF Len(concProfile) = 0 THEN NaN
    ELSE IF target[1] < concProfile[1].time_min THEN concProfile[1].conc
    ELSE HoldFrom(concProfile, target[1], 1, concProfile[1].conc)

---------------------------------------------------------------------------
\* Inputs.

SeqsUpTo(S, n) == UNION {[1..m -> S] : m \in 0..n}

Flows == {0 - 1, 0, 1, 2}
Durations == 0..MaxDuration
FlowSteps == [targetGasFlow : Flows, durationSeconds : Durations]
Configs == [totalFlowrate : {0, 1, 2}, gasConcCyl2 : {0, 1}]

\* 60 s without flow, then 120 s at flow 100, of a 50 ppm cylinder in a total
\* flow of 500.
ScenarioSteps ==
    <<[targetGasFlow |-> 0, durationSeconds |-> 60 * OneSecond],
      [targetGasFlow |-> 100, durationSeconds |-> 120 * OneSecond]>>
ScenarioConfig == [totalFlowrate |-> 500, gasConcCyl2 |-> 50]

BuilderInputs ==
    {[steps |-> st, config |-> cf] : st \in SeqsUpTo(FlowSteps, MaxSteps), cf \in Configs}
      \cup {[steps |-> ScenarioSteps, config |-> ScenarioConfig]}

\* Arbitrary profiles: any order of times, duplicates included.
Concs == {Zero, Num(1), Num(2)}
Times == {0, 1, 2}
Points == [time_min : Times, conc : Concs]
Profiles == SeqsUpTo(Points, MaxPoints)

\* The times at which a profile is sampled: NaN, before the first point, at
\* every point and just after every point.
QueryTimes(profile) ==
    {NaN, <<0 - 1>>} \cup {<<profile[j].time_min + d>> : j \in 1..Len(profile), d \in 0..1}

---------------------------------------------------------------------------
\* calculateGasConcVsTime and identifyGasExposureEvents as whole functions,
\* for their caller runTimeSeriesAnalysis.

\* calculateGasConcVsTime lines 29-80: the loop from step j
RECURSIVE BuildFrom(_, _, _, _, _, _)
BuildFrom(steps, cfg, j, ticks, previousConcentration, profile) ==
    IF j > Len(steps) THEN profile
    ELSE LET newConcentration == StepConcentration(cfg, steps[j])
             p1 == Point1(profile, ticks, previousConcentration)
             p2 == Point2(p1, ticks, previousConcentration, newConcentration)
             newTime == ticks + steps[j].durationSeconds
         IN  BuildFrom(steps, cfg, j + 1, newTime, newConcentration,
                       Point3(p2, newTime, newConcentration))

\* calculateGasConcVsTime lines 11-109
calculateGasConcVsTime(steps, cfg) ==
    IF Len(steps) = 0 THEN EmptyInputProfile
    ELSE FinalProfile(BuildFrom(steps, cfg, 1, 0, Zero, <<Origin>>))

\* identifyGasExposureEvents lines 124-158: the scan from point j
RECURSIVE ScanFrom(_, _, _, _)
ScanFrom(profile, j, active, evs) ==
    IF j > Len(profile) THEN FinalEvents(active, evs)
    ELSE LET r == ScanStep(profile[j], active, evs)
         IN  ScanFrom(profile, j + 1, r.activeEvent, r.events)

\* identifyGasExposureEvents lines 118-178
identifyGasExposureEvents(profile) == ScanFrom(profile, 1, <<>>, <<>>)

---------------------------------------------------------------------------
\* Sensor files: processAllTimeSeriesFiles (src/unnamed/part_001 129-266,
\* the file src/services/timeSeriesAnalysisService.js).
\*
\* A cell of a CSV row is kept as what its parser makes of it: <<>> when
\* parseCustomDateTime returns null or parseFloat returns NaN, <<v>> when
\* the text parses to v.  A timestamp v is Date.getTime() in ticks of half
\* a second, so that time_s (in ticks) is exact and time_min is the double
\* fl(time_s / 60) of TimeMin.  An impedance v is in units of 1e9, so that
\* the limit 1e12 of line 246 is 1000; a signal is the reduced fraction of
\* (impedance - imp_ref) * 100 / imp_ref, which is exact for these values
\* wherever it is compared with the limit 1e4.

\* line 168: Math.max(0, 7, 8) + 1
MinRequiredCols == 9
\* line 246: 1e12, in units of 1e9
ImpedanceLimit == 1000
\* line 247: 1e4
SignalLimit == 10000

\* lines 188-191: the reading of a row with too few columns
UndefinedReading ==
    [time_s |-> NaN, time_min |-> NaN, impedance |-> NaN, phase |-> NaN,
     signal |-> NaN, gas_concentration |-> NaN]

\* mutant: the time anchor is the epoch, whatever the first row says
FileT0Epoch(rows) == <<0>>

\* lines 176-178: the time anchor of a file, the timestamp of its first row
FileT0(rows) == rows[1].time

\* mutant: a row is read whatever the number of its columns
MapRowAnyColumns(row, t0) ==
    LET relative_time_s ==
            IF ~isNaN(row.time) /\ ~isNaN(t0)
            THEN <<row.time[1] - t0[1]>>
            ELSE NaN
        time_min ==
            IF isNaN(relative_time_s) THEN NaN
            ELSE <<TimeMin(relative_time_s[1])>>
    IN  [time_s |-> relative_time_s, time_min |-> time_min,
         impedance |-> row.impedance, phase |-> row.phase,
         signal |-> NaN, gas_concentration |-> NaN]

\* lines 185-211: the reading of one row, before baseline and annotation
MapRow(row, t0) ==
    IF row.cols < MinRequiredCols THEN UndefinedReading
    ELSE LET relative_time_s ==
                 IF ~isNaN(row.time) /\ ~isNaN(t0)
                 THEN <<row.time[1] - t0[1]>>
                 ELSE NaN
             time_min ==
                 IF isNaN(relative_time_s) THEN NaN
                 ELSE <<TimeMin(relative_time_s[1])>>
         IN  [time_s |-> relative_time_s, time_min |-> time_min,
              impedance |-> row.impedance, phase |-> row.phase,
              signal |-> NaN, gas_concentration |-> NaN]

\* mutant: the anchor of the first file that had one is kept for the run
CurrentFileT0Carried(rows, t0Milliseconds) ==
    IF isNaN(t0Milliseconds) THEN FileT0(rows) ELSE t0Milliseconds

\* lines 139-140 and 176-178: the anchor is taken per file; t0Milliseconds,
\* declared before the loop, is never read
CurrentFileT0(rows, t0Milliseconds) == FileT0(rows)

\* lines 184-212
MapRows(rows, t0) == [r \in 1..Len(rows) |-> MapRow(rows[r], t0)]

\* line 217: the rows at or before the reference time
SuitablePointsForRef(table, ref) ==
    {r \in 1..Len(table) :
        ~isNaN(table[r].time_min) /\ table[r].time_min[1] <= ref[1]}

Max(S) == CHOOSE x \in S : \A y \in S : y <= x

\* mutant: the first suitable row is the baseline row
RefIdxFirstSuitable(table, ref) ==
    LET suitable == SuitablePointsForRef(table, ref)
    IN  IF suitable # {} THEN 0 - Max({0 - r : r \in suitable})
        ELSE IF Len(table) > 0 /\ ~isNaN(table[1].time_min) THEN 1
        ELSE 0

\* lines 215-227: the index of the baseline row, 0 for none (-1 in the code,
\* whose indices start at 0)
RefIdx(table, ref) ==
    LET suitable == SuitablePointsForRef(table, ref)
    IN  IF suitable # {} THEN Max(suitable)
        ELSE IF Len(table) > 0 /\ ~isNaN(table[1].time_min) THEN 1
        ELSE 0

\* lines 229-231
ImpRef(table, refIdx) ==
    IF refIdx # 0 /\ ~isNaN(table[refIdx].impedance)
    THEN table[refIdx].impedance
    ELSE NaN

\* mutant: the signal is computed after line 246, from suppressed impedances
SignalOfSuppressed(impedance, imp_ref) ==
    IF ~isNaN(imp_ref) /\ imp_ref[1] # 0 /\ imp_ref[1] <= ImpedanceLimit
       /\ ~isNaN(impedance) /\ impedance[1] <= ImpedanceLimit
    THEN Quotient((impedance[1] - imp_ref[1]) * 100, imp_ref[1])
    ELSE NaN

\* mutant: the relative change is not scaled to a percentage
SignalNoPercent(impedance, imp_ref) ==
    IF ~isNaN(imp_ref) /\ imp_ref[1] # 0 /\ ~isNaN(impedance)
    THEN Quotient(impedance[1] - imp_ref[1], imp_ref[1])
    ELSE NaN

\* lines 239-243: ((impedance - imp_ref) / imp_ref) * 100
Signal(impedance, imp_ref) ==
    IF ~isNaN(imp_ref) /\ imp_ref[1] # 0 /\ ~isNaN(impedance)
    THEN Quotient((impedance[1] - imp_ref[1]) * 100, imp_ref[1])
    ELSE NaN

\* line 246: impedance > 1e12 (NaN > 1e12 is false)
SuppressImpedance(impedance) ==
    IF ~isNaN(impedance) /\ impedance[1] > ImpedanceLimit THEN NaN ELSE impedance

\* line 247: Math.abs(signal) > 1e4
SuppressSignal(signal) ==
    IF ~isNaN(signal) /\ Abs(signal[1]) > SignalLimit * signal[2]
    THEN NaN
    ELSE signal

\* mutant: the profile is sampled whatever the flag says
GasConcentrationAnyFlag(profile, available, time_min) ==
    IF Len(profile) > 0 /\ ~isNaN(time_min)
    THEN interpolateGasConcentration(profile, time_min)
    ELSE NaN

\* lines 250-254
GasConcentration(profile, available, time_min) ==
    IF available /\ Len(profile) > 0 /\ ~isNaN(time_min)
    THEN interpolateGasConcentration(profile, time_min)
    ELSE NaN

\* lines 238-255: the body of the forEach; the signal is computed from the
\* impedance as parsed, before line 246 replaces it
FinishRow(reading, imp_ref, profile, available) ==
    [reading EXCEPT
        !.signal = SuppressSignal(Signal(reading.impedance, imp_ref)),
        !.impedance = SuppressImpedance(reading.impedance),
        !.gas_concentration = GasConcentration(profile, available, reading.time_min)]

\* lines 184-255: the readings of a file that is not skipped
ProcessedTable(rows, t0, ref, profile, available) ==
    LET table == MapRows(rows, t0)
        imp_ref == ImpRef(table, RefIdx(table, ref))
    IN  [r \in 1..Len(rows) |-> FinishRow(table[r], imp_ref, profile, available)]

\* lines 151-157: parseCsvFile rejects
ParseFails(file) == ~file.readable
\* lines 159-163
YieldsNoRows(file) == Len(file.rows) = 0
\* lines 170-174
FirstRowTooShort(file) == file.rows[1].cols < MinRequiredCols

\* lines 151-174: the file is skipped, no table is pushed
Skips(file) == ParseFails(file) \/ YieldsNoRows(file) \/ FirstRowTooShort(file)

\* mutant: the newest table is put first
PushTableFirst(tables, name, data) ==
    <<[fileName |-> name, data |-> data]>> \o tables

\* lines 257-262
PushTable(tables, name, data) ==
    Append(tables, [fileName |-> name, data |-> data])

\* the locals of an iteration that the table does not show
NoLocals == [t0 |-> NaN, refIdx |-> 0, imp_ref |-> NaN]

Locals(rows, t0, ref) ==
    LET table == MapRows(rows, t0)
    IN  [t0 |-> t0, refIdx |-> RefIdx(table, ref),
         imp_ref |-> ImpRef(table, RefIdx(table, ref))]

---------------------------------------------------------------------------
\* The parsers called by runTimeSeriesAnalysis.

\* mutant: a row without duration is dropped as well
ValidGasRowWithDuration(row) ==
    /\ row.cols >= 3
    /\ ~isNaN(row.flow)
    /\ ~isNaN(row.duration)
    /\ row.duration[1] > 0

\* parseGasFlowFile (src/unnamed/part_002 68-80): the row is kept
ValidGasRow(row) == row.cols >= 3 /\ ~isNaN(row.flow) /\ ~isNaN(row.duration)

\* parseGasFlowFile (src/unnamed/part_002 56-94); ok is FALSE when it throws
parseGasFlowFile(file) ==
    IF ~file.readable \/ Len(file.rows) = 0
    THEN [ok |-> FALSE, data |-> <<>>]
    ELSE LET valid == SelectSeq(file.rows, ValidGasRow)
         IN  [ok |-> Len(valid) > 0,
              data |-> [j \in 1..Len(valid) |->
                          [targetGasFlow |-> valid[j].flow[1],
                           durationSeconds |-> valid[j].duration[1]]]]

\* mutant: a string without a colon is read as seconds
timeStringToMinutesLoose(timeStr) ==
    IF Len(timeStr) \notin {1, 2, 3} THEN NaN
    ELSE IF \E j \in 1..Len(timeStr) : isNaN(timeStr[j]) THEN NaN
    ELSE LET n == Len(timeStr)
             hours == IF n = 3 THEN timeStr[1][1] ELSE 0
             minutes == IF n >= 2 THEN timeStr[n - 1][1] ELSE 0
             seconds == timeStr[n][1]
         IN  <<TimeMin((hours * 60 + minutes) * 60 * OneSecond + seconds)>>

\* timeStringToMinutes (src/src/utils/dateTimeUtils.js 9-42).  The string is
\* kept as its parts between the colons, <<>> for a part that is not a
\* number of at most two digits (with a fraction for the seconds) and <<n>>
\* for one that is; the seconds are in ticks.  The inputs have no hours and
\* minutes or no seconds, which makes hours * 60 + minutes + seconds / 60
\* the double of TimeMin.
timeStringToMinutes(timeStr) ==
    IF Len(timeStr) \notin {2, 3} THEN NaN
    ELSE IF \E j \in 1..Len(timeStr) : isNaN(timeStr[j]) THEN NaN
    ELSE LET n == Len(timeStr)
             hours == IF n = 3 THEN timeStr[1][1] ELSE 0
             minutes == timeStr[n - 1][1]
             seconds == timeStr[n][1]
         IN  <<TimeMin((hours * 60 + minutes) * 60 * OneSecond + seconds)>>

---------------------------------------------------------------------------
\* Inputs of the sensor-file processing.

MaxRows == 3         \* rows in a sensor file
MaxFiles == 3        \* sensor files in a run

Stamps == {NaN, <<0>>, <<1>>, <<2>>}
Impedances == {NaN, <<0>>, <<1>>, <<102>>}

\* a row of 8 columns: it has a timestamp and an impedance, and no phase
ShortRow == [cols |-> 8, time |-> <<1>>, impedance |-> <<1>>, phase |-> NaN]

SensorRows ==
    {ShortRow} \cup
    [cols : {MinRequiredCols}, time : Stamps, impedance : Impedances, phase : {<<45>>}]

Row(t, z) == [cols |-> MinRequiredCols, time |-> t, impedance |-> z, phase |-> <<45>>]

UnreadableFile == [readable |-> FALSE, rows |-> <<>>]
File(rows) == [readable |-> TRUE, rows |-> rows]

\* impedances 100, 100, 150, 100 at minutes 0, 1, 2, 3
ScenarioFile ==
    File(<<Row(<<0>>, <<100>>), Row(<<60 * OneSecond>>, <<100>>),
           Row(<<120 * OneSecond>>, <<150>>), Row(<<180 * OneSecond>>, <<100>>)>>)
\* reference time 1.5 minutes
ScenarioRefTime == <<TimeMin(90 * OneSecond)>>

SensorFiles == {UnreadableFile} \cup {File(rows) : rows \in SeqsUpTo(SensorRows, MaxRows)}

\* reference times: before, at and after the first row
RefTimes == {<<TimeMin(0 - 1)>>, <<TimeMin(0)>>, <<TimeMin(1)>>}

\* profiles handed to processAllTimeSeriesFiles
SensorProfiles == {<<>>, <<Point(TimeMin(0), Zero), Point(TimeMin(1), Num(1))>>}

FileInputs ==
    [file : SensorFiles, ref : RefTimes, profile : SensorProfiles, available : BOOLEAN]
      \cup {[file |-> ScenarioFile, ref |-> ScenarioRefTime,
             profile |-> <<>>, available |-> TRUE]}

---------------------------------------------------------------------------
\* The pipeline of runTimeSeriesAnalysis: build the profile, extract the
\* exposure events, sample the profile.

\* no callback has been called
Unpublished == [gasConcProfile |-> <<>>, gasExposureEvents |-> <<>>, timeSeriesData |-> <<>>]

\* currentConfig with its fields as parseFloat reads them
DefaultConfig == [gasConcCyl2 |-> <<1>>, totalFlowrate |-> <<1>>, refTimeStr |-> <<>>]

FilesIdle ==
    /\ fileIdx = 0
    /\ sensorDataTablesResult = <<>>
    /\ fileLocals = NoLocals
    /\ published = Unpublished
    /\ returned = "pending"

\* runTimeSeriesAnalysis is not running
RunIdle ==
    /\ gasFlowFileObject = <<>>
    /\ timeSeriesFiles = <<>>
    /\ currentConfig = DefaultConfig
    /\ refTimeMinutes = NaN
    /\ gasConcAvailable = FALSE
    /\ FilesIdle

BuilderIdle ==
    /\ i = 0
    /\ currentTimeSeconds = 0
    /\ currentConcentration = Zero
    /\ calculatedProfile = <<>>

ConsumersIdle ==
    /\ k = 0
    /\ activeEvent = <<>>
    /\ events = <<>>
    /\ targetTimeMin = NaN
    /\ resultConc = NaN

Init ==
    /\ pc = "build"
    /\ \E inp \in BuilderInputs : gasFlowData = inp.steps /\ config = inp.config
    /\ BuilderIdle
    /\ gasConcProfile = <<>>
    /\ ConsumersIdle
    /\ RunIdle

\* calculateGasConcVsTime lines 13-27
BuildStart ==
    /\ pc = "build"
    /\ IF Len(gasFlowData) = 0
       THEN /\ calculatedProfile' = EmptyInputProfile
            /\ gasConcProfile' = EmptyInputProfile
            /\ pc' = "scan"
       ELSE /\ calculatedProfile' = <<Origin>>
            /\ gasConcProfile' = gasConcProfile
            /\ pc' = "loop"
    /\ UNCHANGED <<gasFlowData, config, i, currentTimeSeconds, currentConcentration,
                   k, activeEvent, events, targetTimeMin, resultConc>>
    /\ UNCHANGED runVars

\* calculateGasConcVsTime lines 29-80: one iteration of the loop
BuildStep ==
    /\ pc = "loop"
    /\ i < Len(gasFlowData)
    /\ LET step == gasFlowData[i + 1]
           previousConcentration == currentConcentration
           newConcentration == StepConcentration(config, step)
           p1 == Point1(calculatedProfile, currentTimeSeconds, previousConcentration)
           p2 == Point2(p1, currentTimeSeconds, previousConcentration, newConcentration)
           newTime == currentTimeSeconds + step.durationSeconds
       IN  /\ currentConcentration' = newConcentration
           /\ currentTimeSeconds' = newTime
           /\ calculatedProfile' = Point3(p2, newTime, newConcentration)
    /\ i' = i + 1
    /\ UNCHANGED <<pc, gasFlowData, config, gasConcProfile, k, activeEvent, events,
                   targetTimeMin, resultConc>>
    /\ UNCHANGED runVars

\* calculateGasConcVsTime lines 82-108
BuildFinish ==
    /\ pc = "loop"
    /\ i = Len(gasFlowData)
    /\ gasConcProfile' = FinalProfile(calculatedProfile)
    /\ pc' = "scan"
    /\ UNCHANGED <<gasFlowData, config, i, currentTimeSeconds, currentConcentration,
                   calculatedProfile, k, activeEvent, events, targetTimeMin, resultConc>>
    /\ UNCHANGED runVars

\* identifyGasExposureEvents lines 124-158: one iteration of the scan
ScanPoint ==
    /\ pc = "scan"
    /\ k < Len(gasConcProfile)
    /\ LET r == ScanStep(gasConcProfile[k + 1], activeEvent, events)
       IN  /\ activeEvent' = r.activeEvent
           /\ events' = r.events
    /\ k' = k + 1
    /\ UNCHANGED <<pc, gasFlowData, config, i, currentTimeSeconds, currentConcentration,
                   calculatedProfile, gasConcProfile, targetTimeMin, resultConc>>
    /\ UNCHANGED runVars

\* identifyGasExposureEvents lines 121 and 159-177: the events are returned
ScanFinish ==
    /\ pc = "scan"
    /\ k = Len(gasConcProfile)
    /\ events' = FinalEvents(activeEvent, events)
    /\ pc' = "sample"
    /\ UNCHANGED <<gasFlowData, config, i, currentTimeSeconds, currentConcentration,
                   calculatedProfile, gasConcProfile, k, activeEvent,
                   targetTimeMin, resultConc>>
    /\ UNCHANGED runVars

\* interpolateGasConcentration, called for one query time
Sample ==
    /\ pc = "sample"
    /\ \E t \in QueryTimes(gasConcProfile) :
          /\ targetTimeMin' = t
          /\ resultConc' = interpolateGasConcentration(gasConcProfile, t)
    /\ pc' = "done"
    /\ UNCHANGED <<gasFlowData, config, i, currentTimeSeconds, currentConcentration,
                   calculatedProfile, gasConcProfile, k, activeEvent, events>>
    /\ UNCHANGED runVars

Next == BuildStart \/ BuildStep \/ BuildFinish \/ ScanPoint \/ ScanFinish \/ Sample

Spec == Init /\ [][Next]_vars

\* The extractor and the sampler on an arbitrary profile.
InitProfile ==
    /\ pc = "scan"
    /\ gasFlowData = <<>>
    /\ config = [totalFlowrate |-> 0, gasConcCyl2 |-> 0]
    /\ BuilderIdle
    /\ gasConcProfile \in Profiles
    /\ ConsumersIdle
    /\ RunIdle

NextProfile == ScanPoint \/ ScanFinish \/ Sample

SpecProfile == InitProfile /\ [][NextProfile]_vars

---------------------------------------------------------------------------
\* runTimeSeriesAnalysis (src/unnamed/part_001 26-123) and the loop of
\* processAllTimeSeriesFiles (129-266).  The callbacks do not throw.

\* lines 42-89: Step 1, the gas-flow table.  The inner try of lines 51-82
\* catches a rejected parseGasFlowFile and the throw of line 64.
RunGasFlow ==
    /\ pc = "run"
    /\ IF gasFlowFileObject # <<>>
       THEN LET parsed == parseGasFlowFile(gasFlowFileObject[1])
            IN  IF parsed.ok /\ ~isNaN(currentConfig.gasConcCyl2)
                THEN LET configForCalc ==
                             [totalFlowrate |-> currentConfig.totalFlowrate[1],
                              gasConcCyl2 |-> currentConfig.gasConcCyl2[1]]
                         profile == calculateGasConcVsTime(parsed.data, configForCalc)
                         gasExposureEvents == identifyGasExposureEvents(profile)
                     IN  /\ gasFlowData' = parsed.data
                         /\ config' = configForCalc
                         /\ gasConcProfile' = profile
                         /\ events' = gasExposureEvents
                         /\ published' =
                              [published EXCEPT
                                  !.gasConcProfile = <<profile>>,
                                  !.gasExposureEvents = <<gasExposureEvents>>]
                         /\ gasConcAvailable' = TRUE
                ELSE /\ gasFlowData' = parsed.data
                     /\ published' =
                          [published EXCEPT !.gasConcProfile = <<(<<>>)>>,
                                            !.gasExposureEvents = <<(<<>>)>>]
                     /\ gasConcAvailable' = FALSE
                     /\ UNCHANGED <<config, gasConcProfile, events>>
       ELSE /\ published' =
                 [published EXCEPT !.gasConcProfile = <<(<<>>)>>,
                                   !.gasExposureEvents = <<(<<>>)>>]
            /\ gasConcAvailable' = TRUE
            /\ UNCHANGED <<gasFlowData, config, gasConcProfile, events>>
    /\ pc' = "reftime"
    /\ UNCHANGED <<i, currentTimeSeconds, currentConcentration, calculatedProfile,
                   k, activeEvent, targetTimeMin, resultConc>>
    /\ UNCHANGED <<gasFlowFileObject, timeSeriesFiles, currentConfig, refTimeMinutes,
                   fileIdx, sensorDataTablesResult, fileLocals, returned>>

\* mutant: the catch publishes an empty list of tables
CatchPublishesNoTables(p) == [p EXCEPT !.timeSeriesData = <<(<<>>)>>]

\* lines 118-122: the catch logs and returns false; it calls no setter
CatchPublishes(p) == p

\* lines 93-97 and the catch of lines 118-122
RunRefTime ==
    /\ pc = "reftime"
    /\ LET minutes == timeStringToMinutes(currentConfig.refTimeStr)
       IN  /\ refTimeMinutes' = minutes
           /\ IF isNaN(minutes)
              THEN /\ pc' = "returned"
                   /\ returned' = "false"
                   /\ published' = CatchPublishes(published)
              ELSE /\ pc' = "files"
                   /\ UNCHANGED <<returned, published>>
    /\ UNCHANGED <<gasFlowData, config, i, currentTimeSeconds, currentConcentration,
                   calculatedProfile, gasConcProfile, k, activeEvent, events,
                   targetTimeMin, resultConc>>
    /\ UNCHANGED <<gasFlowFileObject, timeSeriesFiles, currentConfig, gasConcAvailable,
                   fileIdx, sensorDataTablesResult, fileLocals>>

\* processAllTimeSeriesFiles lines 142-265: one iteration of the loop.  A
\* table is named by the position of its file in the input.
ProcessFile ==
    /\ pc = "files"
    /\ fileIdx < Len(timeSeriesFiles)
    /\ LET file == timeSeriesFiles[fileIdx + 1]
       IN  IF Skips(file)
           THEN UNCHANGED <<sensorDataTablesResult, fileLocals>>
           ELSE LET t0 == CurrentFileT0(file.rows, fileLocals.t0)
                IN  /\ fileLocals' = Locals(file.rows, t0, refTimeMinutes)
                    /\ sensorDataTablesResult' =
                         PushTable(sensorDataTablesResult, fileIdx + 1,
                                   ProcessedTable(file.rows, t0, refTimeMinutes,
                                                  gasConcProfile, gasConcAvailable))
    /\ fileIdx' = fileIdx + 1
    /\ UNCHANGED <<pc, gasFlowData, config, i, currentTimeSeconds, currentConcentration,
                   calculatedProfile, gasConcProfile, k, activeEvent, events,
                   targetTimeMin, resultConc>>
    /\ UNCHANGED <<gasFlowFileObject, timeSeriesFiles, currentConfig, refTimeMinutes,
                   gasConcAvailable, published, returned>>

\* processAllTimeSeriesFiles line 266 and runTimeSeriesAnalysis lines 111-116
RunFinish ==
    /\ pc = "files"
    /\ fileIdx = Len(timeSeriesFiles)
    /\ published' = [published EXCEPT !.timeSeriesData = <<sensorDataTablesResult>>]
    /\ returned' = "true"
    /\ pc' = "returned"
    /\ UNCHANGED <<gasFlowData, config, i, currentTimeSeconds, currentConcentration,
                   calculatedProfile, gasConcProfile, k, activeEvent, events,
                   targetTimeMin, resultConc>>
    /\ UNCHANGED <<gasFlowFileObject, timeSeriesFiles, currentConfig, refTimeMinutes,
                   gasConcAvailable, fileIdx, sensorDataTablesResult, fileLocals>>

\* processAllTimeSeriesFiles on one file, for any reference time, profile
\* and flag.
InitFiles ==
    /\ pc = "files"
    /\ gasFlowData = <<>>
    /\ config = [totalFlowrate |-> 0, gasConcCyl2 |-> 0]
    /\ BuilderIdle
    /\ ConsumersIdle
    /\ gasFlowFileObject = <<>>
    /\ currentConfig = DefaultConfig
    /\ \E inp \in FileInputs :
          /\ timeSeriesFiles = <<inp.file>>
          /\ refTimeMinutes = inp.ref
          /\ gasConcProfile = inp.profile
          /\ gasConcAvailable = inp.available
    /\ FilesIdle

NextFiles == ProcessFile \/ RunFinish

SpecFiles == InitFiles /\ [][NextFiles]_vars

\* Inputs of a whole run.
GasRow(cols, flow, duration) == [cols |-> cols, flow |-> flow, duration |-> duration]
GasFile(rows) == [readable |-> TRUE, rows |-> rows]

\* no gas-flow file; an unreadable one; one without rows; one whose rows are
\* all dropped; one step; a dropped row among two steps
RunGasFiles ==
    {<<>>, <<[readable |-> FALSE, rows |-> <<>>]>>, <<GasFile(<<>>)>>,
     <<GasFile(<<GasRow(2, NaN, NaN), GasRow(3, NaN, <<2>>)>>)>>,
     <<GasFile(<<GasRow(3, <<1>>, <<2>>)>>)>>,
     <<GasFile(<<GasRow(3, <<0>>, <<2>>), GasRow(3, <<1>>, NaN),
                 GasRow(4, <<1>>, <<3>>)>>)>>}

\* "", "1", "x:00", "0:00", "0:00.5", "0:0:01"
RefTimeStrs ==
    {<<>>, <<<<OneSecond>>>>, <<NaN, <<0>>>>, <<<<0>>, <<0>>>>, <<<<0>>, <<1>>>>,
     <<<<0>>, <<0>>, <<OneSecond>>>>}

RunConfigs ==
    [gasConcCyl2 : {NaN, <<1>>}, totalFlowrate : {<<1>>}, refTimeStr : RefTimeStrs]

\* unreadable; no rows; a short first row; one row; a short row between two
\* rows; a first row whose timestamp does not parse; impedances beyond the
\* limit on both sides
RunFiles ==
    {UnreadableFile, File(<<>>), File(<<ShortRow>>), File(<<Row(<<0>>, <<1>>)>>),
     File(<<Row(<<1>>, <<1>>), ShortRow, Row(<<2>>, <<102>>)>>),
     File(<<Row(NaN, <<1>>), Row(<<1>>, <<0>>)>>),
     File(<<Row(<<0>>, <<ImpedanceLimit>>), Row(<<1>>, <<2 * ImpedanceLimit>>),
            Row(<<2>>, <<0 - 2 * ImpedanceLimit>>)>>)}

InitRun ==
    /\ pc = "run"
    /\ gasFlowData = <<>>
    /\ config = [totalFlowrate |-> 0, gasConcCyl2 |-> 0]
    /\ BuilderIdle
    /\ gasConcProfile = <<>>
    /\ ConsumersIdle
    /\ gasFlowFileObject \in RunGasFiles
    /\ timeSeriesFiles \in SeqsUpTo(RunFiles, MaxFiles)
    /\ currentConfig \in RunConfigs
    /\ refTimeMinutes = NaN
    /\ gasConcAvailable = FALSE
    /\ FilesIdle

NextRun == RunGasFlow \/ RunRefTime \/ ProcessFile \/ RunFinish

SpecRun == InitRun /\ [][NextRun]_vars

\* Runs over gas-flow files of any rows: two fields; no flow; no duration;
\* and four rows that parse, one of them of duration 0.
MaxGasRows == 3      \* rows in a gas-flow file

GasRows ==
    {GasRow(2, <<1>>, NaN), GasRow(3, NaN, <<2>>), GasRow(3, <<1>>, NaN),
     GasRow(3, <<0>>, <<2>>), GasRow(3, <<1>>, <<0>>), GasRow(4, <<2>>, <<3>>),
     GasRow(3, <<1>>, <<2>>)}

GasFiles ==
    {<<[readable |-> FALSE, rows |-> <<>>]>>}
      \cup {<<GasFile(rows)>> : rows \in SeqsUpTo(GasRows, MaxGasRows)}

InitGas ==
    /\ pc = "run"
    /\ gasFlowData = <<>>
    /\ config = [totalFlowrate |-> 0, gasConcCyl2 |-> 0]
    /\ BuilderIdle
    /\ gasConcProfile = <<>>
    /\ ConsumersIdle
    /\ gasFlowFileObject \in GasFiles
    /\ timeSeriesFiles \in {<<>>, <<File(<<Row(<<0>>, <<1>>), Row(<<2>>, <<0>>)>>)>>}
    /\ currentConfig \in RunConfigs
    /\ refTimeMinutes = NaN
    /\ gasConcAvailable = FALSE
    /\ FilesIdle

SpecGas == InitGas /\ [][NextRun]_vars

---------------------------------------------------------------------------
\* Properties of calculateGasConcVsTime (under Spec).

\* calculateGasConcVsTime has returned: gasConcProfile is its result
Built == pc \in {"scan", "sample", "done"}

NonDecreasing(profile) ==
    \A j \in 1..(Len(profile) - 1) : profile[j].time_min <= profile[j + 1].time_min

\* C1: for every FlowStep sequence with non-negative durations (0 and
\* durations below one second included) the returned profile has
\* non-decreasing time_min.
C1_NonDecreasingTime == Built => NonDecreasing(gasConcProfile)

\* C2: round trip: sampling the returned profile at the time of any of its
\* points returns that point's concentration.
C2_RoundTrip ==
    (pc = "done" /\ ~isNaN(targetTimeMin)) =>
        \A j \in 1..Len(gasConcProfile) :
            gasConcProfile[j].time_min = targetTimeMin[1]
                => resultConc = gasConcProfile[j].conc

\* C7: the returned profile is never empty and starts with (0, 0); for the
\* empty FlowStep sequence it is exactly the single point (0, 0).
C7_StartsAtOrigin ==
    Built =>
        /\ Len(gasConcProfile) >= 1
        /\ gasConcProfile[1].time_min = 0
        /\ gasConcProfile[1].conc = Zero
        /\ (Len(gasFlowData) = 0 => gasConcProfile = <<Point(0, Zero)>>)

C7_Witness ==
    /\ Built
    /\ Len(gasFlowData) = 0
    /\ gasConcProfile = <<Point(0, Zero)>>

\* C8: the returned profile has no two consecutive points identical in both
\* time_min and conc.
C8_NoConsecutiveDuplicates ==
    Built =>
        \A j \in 1..(Len(gasConcProfile) - 1) :
            \/ gasConcProfile[j].time_min # gasConcProfile[j + 1].time_min
            \/ gasConcProfile[j].conc # gasConcProfile[j + 1].conc

\* a zero-duration step and a repeated concentration, and points were dropped
C8_Witness ==
    /\ Built
    /\ Len(gasFlowData) = 2
    /\ gasFlowData[1].durationSeconds = 0
    /\ gasFlowData[1].targetGasFlow = gasFlowData[2].targetGasFlow
    /\ Len(gasConcProfile) < Len(calculatedProfile)

\* cylinderConcentration * f / totalFlowrate, by cross-multiplication
IsQuotient(c, n, d) == c[2] > 0 /\ c[1] * d = n * c[2]

\* the two-step inputs of C9: no flow for d1 >= 1 s, then flow f > 0 for d2 > 1 s
TwoStepInput ==
    /\ Len(gasFlowData) = 2
    /\ gasFlowData[1].targetGasFlow = 0
    /\ gasFlowData[1].durationSeconds >= OneSecond
    /\ gasFlowData[2].targetGasFlow > 0
    /\ gasFlowData[2].durationSeconds > OneSecond
    /\ config.totalFlowrate > 0
    /\ config.gasConcCyl2 > 0

C10_StepConcentration ==
    (pc = "loop" /\ i >= 1) =>
        LET step == gasFlowData[i]
        IN  /\ Last(calculatedProfile).conc = currentConcentration
            /\ IF config.totalFlowrate = 0
               THEN IF config.gasConcCyl2 > 0 /\ step.targetGasFlow > 0
                    THEN currentConcentration = Infinity
                    ELSE currentConcentration = Zero
               ELSE IsQuotient(currentConcentration,
                               config.gasConcCyl2 * step.targetGasFlow,
                               config.totalFlowrate)

\* totalFlowrate = 0, cylinderConcentration > 0, targetFlow > 0: Infinity
C10_Witness ==
    /\ pc = "loop"
    /\ i >= 1
    /\ config.totalFlowrate = 0
    /\ config.gasConcCyl2 > 0
    /\ gasFlowData[i].targetGasFlow > 0
    /\ currentConcentration = Infinity

\* ticks elapsed when step j of the input starts
RECURSIVE StepStart(_, _)
StepStart(steps, j) ==
    IF j <= 1 THEN 0 ELSE StepStart(steps, j - 1) + steps[j - 1].durationSeconds

\* the concentration before step j: the preceding step's, or the initial 0
PrecedingConcentration(j) ==
    IF j = 1 THEN Zero ELSE StepConcentration(config, gasFlowData[j - 1])

RepeatsConcentration(j) ==
    StepConcentration(config, gasFlowData[j]) = PrecedingConcentration(j)

\* C11: for every step whose concentration equals that of the preceding step
\* (or the initial 0 for the first step) the returned profile contains a
\* point one second after the step's start holding that concentration.
C11_RepeatedStepHasDelayedPoint ==
    Built =>
        \A j \in 1..Len(gasFlowData) :
            RepeatsConcentration(j) =>
                \E n \in 1..Len(gasConcProfile) :
                    /\ gasConcProfile[n].time_min =
                           PlusOneSecond(StepStart(gasFlowData, j))
                    /\ gasConcProfile[n].conc =
                           StepConcentration(config, gasFlowData[j])

\* phase 1 of the two-phase algorithm, from step j: every step emits its
\* closing point, the point one second later if the concentration changed,
\* and its end point, with no test of what was emitted before
RECURSIVE UnguardedFrom(_, _, _, _, _, _)
UnguardedFrom(steps, cfg, j, ticks, previousConcentration, points) ==
    IF j > Len(steps) THEN points
    ELSE LET newConcentration == StepConcentration(cfg, steps[j])
             closing == <<Point(TimeMin(ticks), previousConcentration)>>
             delayed == IF newConcentration # previousConcentration
                        THEN <<Point(PlusOneSecond(ticks), newConcentration)>>
                        ELSE <<>>
             newTime == ticks + steps[j].durationSeconds
         IN  UnguardedFrom(steps, cfg, j + 1, newTime, newConcentration,
                           points \o closing \o delayed
                                  \o <<Point(TimeMin(newTime), newConcentration)>>)

\* phase 2: one pass that removes a point identical to the one before it
RECURSIVE RemoveRepeats(_)
RemoveRepeats(points) ==
    IF Len(points) <= 1 THEN points
    ELSE LET front == RemoveRepeats(SubSeq(points, 1, Len(points) - 1))
         IN  IF points[Len(points)] = points[Len(points) - 1]
             THEN front
             ELSE Append(front, points[Len(points)])

TwoPhase(steps, cfg) ==
    RemoveRepeats(UnguardedFrom(steps, cfg, 1, 0, Zero, <<Point(0, Zero)>>))

C26_GuardBranchDead ==
    (pc = "loop" /\ i < Len(gasFlowData)) =>
        ~ /\ Point1Condition(calculatedProfile, currentTimeSeconds, currentConcentration)
          /\ GuardHit(calculatedProfile, currentTimeSeconds, currentConcentration)

\* a step is about to be processed and the last point is at the current
\* time with the previous concentration: Point 1 is not entered at all
C26_Witness ==
    /\ pc = "loop"
    /\ i >= 1
    /\ i < Len(gasFlowData)
    /\ GuardHit(calculatedProfile, currentTimeSeconds, currentConcentration)
    /\ ~Point1Condition(calculatedProfile, currentTimeSeconds, currentConcentration)

StrictlyIncreasing(profile) ==
    \A j \in 1..(Len(profile) - 1) : profile[j].time_min < profile[j + 1].time_min

AllAtLeastOneSecond(steps) ==
    \A j \in 1..Len(steps) : steps[j].durationSeconds >= OneSecond

\* C27: if every step lasts at least one second the returned profile has
\* strictly increasing time_min.
C27_StrictlyIncreasing ==
    (Built /\ AllAtLeastOneSecond(gasFlowData)) => StrictlyIncreasing(gasConcProfile)

\* C28: for steps of at least one second, sampling the built profile at t
\* returns the previous concentration for S_k <= t < S_k + 1 s, the step's
\* concentration for S_k + 1 s <= t <= S_k + d_k, and the last step's
\* concentration after the end of the last step.
C28_SampledStepFunction ==
    (pc = "done" /\ ~isNaN(targetTimeMin) /\ AllAtLeastOneSecond(gasFlowData)) =>
        LET t == targetTimeMin[1]
            n == Len(gasFlowData)
        IN  /\ \A j \in 1..n :
                  LET S == StepStart(gasFlowData, j)
                      d == gasFlowData[j].durationSeconds
                  IN  /\ (TimeMin(S) <= t /\ t < TimeMin(S + OneSecond))
                          => resultConc = PrecedingConcentration(j)
                      /\ (TimeMin(S + OneSecond) <= t /\ t <= TimeMin(S + d))
                          => resultConc = StepConcentration(config, gasFlowData[j])
            /\ (n >= 1 /\ t > TimeMin(StepStart(gasFlowData, n + 1)))
                  => resultConc = StepConcentration(config, gasFlowData[n])

---------------------------------------------------------------------------
\* Properties of identifyGasExposureEvents and interpolateGasConcentration
\* on arbitrary profiles (under SpecProfile).

\* identifyGasExposureEvents has returned: events is its result
ScanDone == pc \in {"sample", "done"}

Event(a, c, b) == [startTime |-> a, concentration |-> c, endTime |-> b]

\* [(0, 0), (a, c), (b, 0)] with 0 < a < b and c > 0
IsSpike(profile) ==
    /\ Len(profile) = 3
    /\ profile[1] = Point(0, Zero)
    /\ profile[2].time_min > 0
    /\ Positive(profile[2].conc)
    /\ profile[3].time_min > profile[2].time_min
    /\ profile[3].conc = Zero

\* [(0, 0), (a, c), (b, c), (e, 0)] with 0 < a < b <= e and c > 0
IsPlateau(profile) ==
    /\ Len(profile) = 4
    /\ profile[1] = Point(0, Zero)
    /\ profile[2].time_min > 0
    /\ Positive(profile[2].conc)
    /\ profile[3].time_min > profile[2].time_min
    /\ profile[3].conc = profile[2].conc
    /\ profile[4].time_min >= profile[3].time_min
    /\ profile[4].conc = Zero

\* C3 as stated: the profile [(0, 0), (a, c), (b, 0)] yields exactly the
\* event {startTime: a, endTime: b, concentration: c}.
C3_SpikeYieldsOneEvent ==
    (ScanDone /\ IsSpike(gasConcProfile)) =>
        events = <<Event(gasConcProfile[2].time_min, gasConcProfile[2].conc,
                         gasConcProfile[3].time_min)>>

\* C3 amended: the profile [(0, 0), (a, c), (b, 0)] yields no event, an
\* exposure lasting only to the last consecutive point that holds its
\* concentration; [(0, 0), (a, c), (b, c), (e, 0)] yields exactly the event
\* {startTime: a, endTime: b, concentration: c}.
C3_SpikeYieldsNoEvent ==
    /\ (ScanDone /\ IsSpike(gasConcProfile)) => events = <<>>
    /\ (ScanDone /\ IsPlateau(gasConcProfile)) =>
            events = <<Event(gasConcProfile[2].time_min, gasConcProfile[2].conc,
                             gasConcProfile[3].time_min)>>

C3_Witness ==
    /\ ScanDone
    /\ gasConcProfile = <<Point(0, Zero), Point(1, Num(2)), Point(2, Zero)>>
    /\ events = <<>>

\* C4: no returned or pushed event has endTime <= startTime, whatever the
\* order of the input points.
C4_EventsHaveDuration ==
    \A r \in 1..Len(events) : events[r].endTime > events[r].startTime

\* an input that is not time-ordered and repeats a point, with an event
C4_Witness ==
    /\ ScanDone
    /\ ~NonDecreasing(gasConcProfile)
    /\ \E j \in 1..(Len(gasConcProfile) - 1) : gasConcProfile[j] = gasConcProfile[j + 1]
    /\ Len(events) > 0

\* the elements of a sequence at the indices of S, in order
AtIndices(seq, S) ==
    LET n == Cardinality(S)
        nth(r) == CHOOSE j \in S : Cardinality({x \in S : x < j}) = r - 1
    IN  [r \in 1..n |-> seq[nth(r)]]

EventConcs(evs) == [r \in 1..Len(evs) |-> evs[r].concentration]
PointConcs(profile) == [j \in 1..Len(profile) |-> profile[j].conc]

\* first points of the maximal runs of consecutive points sharing one
\* concentration > 0
SegmentStarts(profile) ==
    {j \in 1..Len(profile) :
        /\ Positive(profile[j].conc)
        /\ (j = 1 \/ profile[j - 1].conc # profile[j].conc)}

\* C5 as stated: for a time-ordered profile the events' concentrations are
\* the concentrations of the nonzero segments, one event per segment.
C5_EventsMatchSegments ==
    (ScanDone /\ NonDecreasing(gasConcProfile)) =>
        EventConcs(events)
            = AtIndices(PointConcs(gasConcProfile), SegmentStarts(gasConcProfile))

\* first points of the maximal runs of consecutive points that share one
\* concentration > 0 and have strictly increasing times, for the runs of at
\* least two points
LastingSegmentStarts(profile) ==
    {j \in 1..Len(profile) :
        /\ Positive(profile[j].conc)
        /\ \/ j = 1
           \/ profile[j - 1].conc # profile[j].conc
           \/ profile[j - 1].time_min >= profile[j].time_min
        /\ j < Len(profile)
        /\ profile[j + 1].conc = profile[j].conc
        /\ profile[j + 1].time_min > profile[j].time_min}

\* C5 amended: for a time-ordered profile the events' concentrations are the
\* concentrations of the nonzero segments of at least two points, a segment
\* being a maximal run of consecutive points that share one concentration
\* > 0 and whose times strictly increase.
C5_EventsMatchLastingSegments ==
    (ScanDone /\ NonDecreasing(gasConcProfile)) =>
        EventConcs(events)
            = AtIndices(PointConcs(gasConcProfile), LastingSegmentStarts(gasConcProfile))

\* a lone positive point, which yields no event, then a segment of two
\* points with another concentration, which yields one
C5_Witness ==
    /\ ScanDone
    /\ NonDecreasing(gasConcProfile)
    /\ Cardinality(SegmentStarts(gasConcProfile)) = 2
    /\ Cardinality(LastingSegmentStarts(gasConcProfile)) = 1
    /\ Len(events) = 1
    /\ events[1].concentration = gasConcProfile[Len(gasConcProfile)].conc
    /\ events[1].concentration # gasConcProfile[1].conc
    /\ Positive(gasConcProfile[1].conc)

\* previous-value hold with extrapolation
HoldReference(profile, target) ==
    IF isNaN(target) \/ Len(profile) = 0 THEN NaN
    ELSE IF target[1] < profile[1].time_min THEN profile[1].conc
    ELSE LET j == CHOOSE m \in 1..Len(profile) :
                     /\ profile[m].time_min <= target[1]
                     /\ \A n \in 1..Len(profile) :
                            profile[n].time_min <= target[1] => n <= m
         IN  profile[j].conc

\* C6: on a time-ordered profile interpolateGasConcentration is the
\* previous-value hold with extrapolation: NaN for a NaN time or an empty
\* profile, the first concentration before the first point, otherwise the
\* concentration of the last point whose time_min is <= t.
C6_PreviousValueHold ==
    (pc = "done" /\ NonDecreasing(gasConcProfile)) =>
        resultConc = HoldReference(gasConcProfile, targetTimeMin)

\* a query between two points, answered by the earlier one
C6_Witness ==
    /\ pc = "done"
    /\ NonDecreasing(gasConcProfile)
    /\ Len(gasConcProfile) >= 3
    /\ ~isNaN(targetTimeMin)
    /\ gasConcProfile[2].time_min <= targetTimeMin[1]
    /\ targetTimeMin[1] < gasConcProfile[3].time_min
    /\ gasConcProfile[1].conc # gasConcProfile[2].conc
    /\ gasConcProfile[3].conc # gasConcProfile[2].conc
    /\ resultConc = gasConcProfile[2].conc

\* the scan is at point k + 1 with an active event of that point's
\* concentration
TieCase ==
    /\ pc = "scan"
    /\ k < Len(gasConcProfile)
    /\ activeEvent # <<>>
    /\ gasConcProfile[k + 1].conc = activeEvent[1].concentration

\* C24: while an event is active, a point of the same concentration whose
\* time is at or below the active endTime does not extend it: the active
\* event is closed (pushed only if endTime > startTime) and a new active
\* event starts with startTime = endTime = the point's time; only a point
\* of the same concentration and a strictly greater time extends it.
C24_TieBreak ==
    [][TieCase =>
         LET point == gasConcProfile[k + 1]
             active == activeEvent[1]
         IN  IF point.time_min > active.endTime
             THEN /\ activeEvent' = <<Event(active.startTime, active.concentration,
                                            point.time_min)>>
                  /\ events' = events
             ELSE /\ activeEvent' = <<Event(point.time_min, point.conc, point.time_min)>>
                  /\ events' = IF active.endTime > active.startTime
                               THEN Append(events, active)
                               ELSE events]_vars

\* (0,1), (1,1), (1,1): the third point closes the event 0..1 and starts a
\* new one at 1
C24_Witness ==
    /\ pc = "scan"
    /\ k = 3
    /\ SubSeq(gasConcProfile, 1, 3) =
         <<Point(0, Num(1)), Point(1, Num(1)), Point(1, Num(1))>>
    /\ events = <<Event(0, Num(1), 1)>>
    /\ activeEvent = <<Event(1, Num(1), 1)>>

Occurrences(evs, ev) == Cardinality({r \in 1..Len(evs) : evs[r] = ev})

\* C25: for a time-ordered profile, if the scan ends with an active event
\* of endTime > startTime, that event is the last of the returned list and
\* occurs in it exactly once; if the scan ends idle or with a zero-length
\* active event nothing is appended.
C25_FinalEvent ==
    [][(pc = "scan" /\ k = Len(gasConcProfile) /\ NonDecreasing(gasConcProfile)) =>
         IF activeEvent # <<>> /\ activeEvent[1].endTime > activeEvent[1].startTime
         THEN /\ events' = Append(events, activeEvent[1])
              /\ Occurrences(events', activeEvent[1]) = 1
         ELSE events' = events]_vars

\* an ordered profile with a closed event and a final active one
C25_Witness ==
    /\ ScanDone
    /\ NonDecreasing(gasConcProfile)
    /\ Len(events) = 2
    /\ activeEvent # <<>>
    /\ activeEvent[1].endTime > activeEvent[1].startTime
    /\ events[2] = activeEvent[1]
    /\ events[1] # events[2]

\* C29: for a time-ordered profile the returned events are in chronological
\* order and do not overlap (each ends at or before the start of the next)
\* and every event's concentration is > 0.
C29_EventsOrdered ==
    (ScanDone /\ NonDecreasing(gasConcProfile)) =>
        /\ \A r \in 1..(Len(events) - 1) : events[r].endTime <= events[r + 1].startTime
        /\ \A r \in 1..Len(events) : Positive(events[r].concentration)

\* two events of the same concentration that meet at time 1
C29_Witness ==
    /\ ScanDone
    /\ gasConcProfile =
         <<Point(0, Num(1)), Point(1, Num(1)), Point(1, Num(1)), Point(2, Num(1))>>
    /\ events = <<Event(0, Num(1), 1), Event(1, Num(1), 2)>>

---------------------------------------------------------------------------
\* Properties of processAllTimeSeriesFiles on one file (under SpecFiles).

\* the file has been read and its table pushed
TableMade == fileIdx = 1 /\ Len(sensorDataTablesResult) = 1

TheRows == timeSeriesFiles[1].rows
TheTable == sensorDataTablesResult[1].data

\* the impedance of row r as parseFloat reads it, before line 246
ParsedImpedance(r) ==
    IF TheRows[r].cols < MinRequiredCols THEN NaN ELSE TheRows[r].impedance

TimeDefined(table) == {r \in 1..Len(table) : ~isNaN(table[r].time_min)}

Qualifying(table, ref) ==
    {r \in TimeDefined(table) : table[r].time_min[1] <= ref[1]}

Min(S) == CHOOSE x \in S : \A y \in S : x <= y

\* the baseline row of C12, 0 when there is none
BaselineRow(table, ref) ==
    IF Qualifying(table, ref) # {} THEN Max(Qualifying(table, ref))
    ELSE IF TimeDefined(table) # {} THEN Min(TimeDefined(table))
    ELSE 0

\* C12: the baseline row is the last row in file order among the rows whose
\* time_min is defined and at most refTimeMinutes; if there is none it is
\* the first row in file order with a defined time_min; the baseline
\* impedance is that row's impedance.
C12_BaselineRow ==
    TableMade =>
        LET b == BaselineRow(TheTable, refTimeMinutes)
        IN  /\ fileLocals.refIdx = b
            /\ fileLocals.imp_ref = (IF b = 0 THEN NaN ELSE ParsedImpedance(b))

\* impedances 100, 100, 150, 100 at minutes 0, 1, 2, 3 and a reference time
\* of 1.5 minutes: the baseline is the 100 of minute 1, the signal of
\* minute 2 is 50
C12_Witness ==
    /\ TableMade
    /\ timeSeriesFiles = <<ScenarioFile>>
    /\ refTimeMinutes = ScenarioRefTime
    /\ fileLocals.refIdx = 2
    /\ fileLocals.imp_ref = <<100>>
    /\ TheTable[3].signal = Num(50)

\* no row at or before the reference time: the fallback to the first row
C12_FallbackReached ==
    /\ TableMade
    /\ Qualifying(TheTable, refTimeMinutes) = {}
    /\ fileLocals.refIdx = 1
    /\ Len(TheRows) >= 2

\* (z - b) / b * 100 is beyond the limit of line 247
SignalOutlier(z, b) == Abs((z - b) * 100) > SignalLimit * Abs(b)

\* C13: a reading's signal is (impedance - baseline) / baseline * 100 when
\* its impedance and the baseline are defined, the baseline is not 0 and
\* the result is not suppressed as an outlier; it is undefined otherwise,
\* so every signal is undefined when the baseline is.
C13_Signal ==
    TableMade =>
        \A r \in 1..Len(TheTable) :
            LET z == ParsedImpedance(r)
                b == fileLocals.imp_ref
                signal == TheTable[r].signal
            IN  IF ~isNaN(z) /\ ~isNaN(b) /\ b[1] # 0 /\ ~SignalOutlier(z[1], b[1])
                THEN /\ ~isNaN(signal)
                     /\ signal[2] > 0
                     /\ signal[1] * b[1] = (z[1] - b[1]) * 100 * signal[2]
                ELSE isNaN(signal)

\* baseline 1: a reading of 0 has the signal -100 and a reading of 102,
\* whose signal would be 10100, has none
C13_Witness ==
    /\ TableMade
    /\ fileLocals.imp_ref = <<1>>
    /\ \E r \in 1..Len(TheTable) : TheTable[r].signal = Num(0 - 100)
    /\ \E r \in 1..Len(TheTable) :
          ParsedImpedance(r) = <<102>> /\ isNaN(TheTable[r].signal)

\* the file is read, has rows, and its first row has every column
FileAccepted ==
    /\ fileIdx = 1
    /\ timeSeriesFiles[1].readable
    /\ Len(TheRows) >= 1

\* a row with too few columns is an all-undefined reading, the other rows
\* are read, and the table has one reading per row
RowsRecorded ==
    /\ TableMade
    /\ Len(TheTable) = Len(TheRows)
    /\ \A r \in 1..Len(TheRows) :
          IF TheRows[r].cols < MinRequiredCols
          THEN TheTable[r] = UndefinedReading
          ELSE TheTable[r].phase = TheRows[r].phase

\* C15 as stated: for every row index, the first included, a row with fewer
\* columns than required is recorded as an all-undefined reading, the other
\* rows are processed and the table has one reading per input row.
C15_ShortRowAnywhere == FileAccepted => RowsRecorded

\* C15 as the code has it: that holds when the first row has the required
\* columns; a file whose first row has fewer yields no table at all.
C15_ShortRowAfterFirst ==
    FileAccepted =>
        IF TheRows[1].cols < MinRequiredCols
        THEN sensorDataTablesResult = <<>>
        ELSE RowsRecorded

\* a short row between two full rows
C15_Witness ==
    /\ FileAccepted
    /\ Len(TheRows) = 3
    /\ TheRows[1].cols = MinRequiredCols
    /\ TheRows[2] = ShortRow
    /\ TheRows[3].cols = MinRequiredCols
    /\ TheTable[2] = UndefinedReading
    /\ ~isNaN(TheTable[3].impedance)

\* C16: a reading's gas_concentration is interpolateGasConcentration(profile,
\* time_min) exactly when the availability flag is true, the profile is not
\* empty and time_min is defined; it is undefined otherwise.
C16_GasConcentration ==
    TableMade =>
        \A r \in 1..Len(TheTable) :
            LET gas == TheTable[r].gas_concentration
            IN  IF /\ gasConcAvailable
                   /\ Len(gasConcProfile) > 0
                   /\ ~isNaN(TheTable[r].time_min)
                THEN /\ ~isNaN(gas)
                     /\ gas = interpolateGasConcentration(gasConcProfile,
                                                          TheTable[r].time_min)
                ELSE isNaN(gas)

\* the profile is sampled for a row after its second point and not for a
\* row without time
C16_Witness ==
    /\ TableMade
    /\ gasConcAvailable
    /\ Len(gasConcProfile) = 2
    /\ \E r \in 1..Len(TheTable) :
          /\ TheTable[r].time_min = <<TimeMin(2)>>
          /\ TheTable[r].gas_concentration = Num(1)
    /\ \E r \in 1..Len(TheTable) :
          /\ isNaN(TheTable[r].time_min)
          /\ isNaN(TheTable[r].gas_concentration)

\* the flag is false and the profile is not empty: nothing is sampled
C16_FlagFalseReached ==
    /\ TableMade
    /\ ~gasConcAvailable
    /\ Len(gasConcProfile) > 0
    /\ \E r \in 1..Len(TheTable) : ~isNaN(TheTable[r].time_min)

\* C20: when the timestamp of the first row does not parse, every reading
\* of the file has undefined time_s and time_min and the table is still
\* produced with one reading per row; when it parses, every row with a
\* parseable timestamp has time_s = (rowTime - t0) / 1000 and time_min =
\* time_s / 60, so the first row is at time 0.
C20_RelativeTime ==
    (FileAccepted /\ TheRows[1].cols >= MinRequiredCols) =>
        /\ TableMade
        /\ Len(TheTable) = Len(TheRows)
        /\ IF isNaN(TheRows[1].time)
           THEN \A r \in 1..Len(TheTable) :
                    isNaN(TheTable[r].time_s) /\ isNaN(TheTable[r].time_min)
           ELSE /\ TheTable[1].time_s = <<0>>
                /\ TheTable[1].time_min = <<0>>
                /\ \A r \in 1..Len(TheTable) :
                      (TheRows[r].cols >= MinRequiredCols /\ ~isNaN(TheRows[r].time)) =>
                          /\ TheTable[r].time_s = <<TheRows[r].time[1] - TheRows[1].time[1]>>
                          /\ TheTable[r].time_min = <<TimeMin(TheTable[r].time_s[1])>>

\* the first timestamp does not parse, the second does: no reading has a time
C20_Witness ==
    /\ FileAccepted
    /\ Len(TheRows) = 2
    /\ TheRows[1].cols = MinRequiredCols
    /\ isNaN(TheRows[1].time)
    /\ TheRows[2].time = <<1>>
    /\ TheRows[2].cols = MinRequiredCols
    /\ Len(TheTable) = 2
    /\ isNaN(TheTable[2].time_min)

\* the anchor parses, and a row before it gets a negative time
C20_AnchorReached ==
    /\ TableMade
    /\ TheRows[1].time = <<2>>
    /\ \E r \in 1..Len(TheTable) : TheTable[r].time_s = <<0 - 1>>

---------------------------------------------------------------------------
\* Properties of a whole run of runTimeSeriesAnalysis (under SpecRun).

\* C14: in every table every reading's impedance is undefined or at most
\* 1e12 in magnitude, large negative values included, and its signal is
\* undefined or at most 1e4 in magnitude.
C14_OutliersSuppressed ==
    \A n \in 1..Len(sensorDataTablesResult) :
        \A r \in 1..Len(sensorDataTablesResult[n].data) :
            LET reading == sensorDataTablesResult[n].data[r]
            IN  /\ \/ isNaN(reading.impedance)
                   \/ Abs(reading.impedance[1]) <= ImpedanceLimit
                /\ \/ isNaN(reading.signal)
                   \/ Abs(reading.signal[1]) <= SignalLimit * reading.signal[2]

\* the string is MM:SS.s or HH:MM:SS.s with numeric parts
WellFormed(timeStr) ==
    /\ Len(timeStr) \in {2, 3}
    /\ \A j \in 1..Len(timeStr) : timeStr[j] # <<>>

\* C17: runTimeSeriesAnalysis returns false if and only if the reference
\* time string does not parse; after any other failure (gas-flow file
\* unreadable or without a valid row, cylinder concentration not a number,
\* sensor file unreadable, empty or short) it returns true and publishes
\* the sensor tables.
C17_FalseOnlyForRefTime ==
    (pc = "returned") =>
        /\ returned \in {"true", "false"}
        /\ returned = "false" <=> ~WellFormed(currentConfig.refTimeStr)
        /\ returned = "true" => published.timeSeriesData = <<sensorDataTablesResult>>

\* the gas-flow table was not usable and every sensor file was skipped, and
\* the run returned true with the (empty) list of tables
C17_Witness ==
    /\ pc = "returned"
    /\ returned = "true"
    /\ gasFlowFileObject # <<>>
    /\ ~gasConcAvailable
    /\ Len(timeSeriesFiles) = MaxFiles
    /\ \A n \in 1..Len(timeSeriesFiles) : Skips(timeSeriesFiles[n])
    /\ published.timeSeriesData = <<(<<>>)>>

\* C18 as stated: when the reference time string does not parse the run
\* has failed before anything else took effect: no gas-flow table parsed,
\* no profile or events published, no sensor file read or published.
C18_NothingBeforeAbort ==
    (returned = "false") =>
        /\ gasFlowData = <<>>
        /\ published = Unpublished
        /\ fileIdx = 0
        /\ sensorDataTablesResult = <<>>

\* C18 as the code has it: the run fails before any sensor file is read and
\* without publishing tables, but after Step 1: the gas-flow table has been
\* handled and a profile and a list of events have been published.
C18_AbortBeforeSensorFiles ==
    (returned = "false") =>
        /\ fileIdx = 0
        /\ sensorDataTablesResult = <<>>
        /\ published.timeSeriesData = <<>>
        /\ published.gasConcProfile # <<>>
        /\ published.gasExposureEvents # <<>>
        /\ (gasConcAvailable /\ gasFlowFileObject # <<>>) =>
              /\ gasFlowData # <<>>
              /\ published.gasConcProfile = <<gasConcProfile>>
              /\ Len(gasConcProfile) > 0

\* the run failed on the reference time with sensor files waiting and the
\* profile of the gas-flow table already published
C18_Witness ==
    /\ returned = "false"
    /\ Len(timeSeriesFiles) > 0
    /\ fileIdx = 0
    /\ Len(gasFlowData) = 2
    /\ published.gasConcProfile = <<gasConcProfile>>
    /\ Len(gasConcProfile) > 1
    /\ published.timeSeriesData = <<>>

\* the files read so far that parsed to zero rows
ZeroRowFiles ==
    {n \in 1..fileIdx : timeSeriesFiles[n].readable /\ Len(timeSeriesFiles[n].rows) = 0}

TableNames == {sensorDataTablesResult[n].fileName : n \in 1..Len(sensorDataTablesResult)}

\* C19: a sensor file that parses to zero rows gives no table and does not
\* fail the run: the other files are still processed, the tables are in
\* input order, and runTimeSeriesAnalysis returns true.
C19_EmptyFileSkipped ==
    (ZeroRowFiles # {}) =>
        /\ ZeroRowFiles \cap TableNames = {}
        /\ \A n \in 1..fileIdx : ~Skips(timeSeriesFiles[n]) => n \in TableNames
        /\ \A m, n \in 1..Len(sensorDataTablesResult) :
              m < n => sensorDataTablesResult[m].fileName < sensorDataTablesResult[n].fileName
        /\ pc = "returned" => returned = "true"

\* an empty file between two files with rows: two tables, in input order
C19_Witness ==
    /\ pc = "returned"
    /\ returned = "true"
    /\ Len(timeSeriesFiles) = 3
    /\ ZeroRowFiles = {2}
    /\ Len(sensorDataTablesResult) = 2
    /\ sensorDataTablesResult[1].fileName = 1
    /\ sensorDataTablesResult[2].fileName = 3

\* the rows of the file a table was made from
RowsOfTable(n) == timeSeriesFiles[sensorDataTablesResult[n].fileName].rows

\* C21: the table of a file depends on the file's rows, the reference
\* time, the profile and the flag only: it is the table the file gets when
\* processed on its own, whatever files came before it and whether they
\* were skipped, and two files with the same rows get the same table.
C21_FilesIndependent ==
    /\ \A n \in 1..Len(sensorDataTablesResult) :
          sensorDataTablesResult[n].data =
              ProcessedTable(RowsOfTable(n), FileT0(RowsOfTable(n)), refTimeMinutes,
                             gasConcProfile, gasConcAvailable)
    /\ \A m, n \in 1..Len(sensorDataTablesResult) :
          RowsOfTable(m) = RowsOfTable(n)
              => sensorDataTablesResult[m].data = sensorDataTablesResult[n].data

\* the same file after a file with another anchor and after a skipped file
C21_Witness ==
    /\ pc = "returned"
    /\ Len(timeSeriesFiles) = 3
    /\ Len(sensorDataTablesResult) = 2
    /\ ~Skips(timeSeriesFiles[1])
    /\ FileT0(timeSeriesFiles[1].rows) = <<0>>
    /\ FileT0(timeSeriesFiles[3].rows) = <<1>>
    /\ sensorDataTablesResult[2].fileName = 3
    /\ sensorDataTablesResult[2].data[3].time_s = <<1>>

---------------------------------------------------------------------------
\* Properties of parseGasFlowFile within a run (under SpecGas).

\* the gas-flow file was read and has rows, and Step 1 is over
GasFileParsed ==
    /\ pc # "run"
    /\ gasFlowFileObject[1].readable
    /\ Len(gasFlowFileObject[1].rows) > 0

TheGasRows == gasFlowFileObject[1].rows

\* the rows of C22 that are not dropped, in their order, as FlowSteps
RECURSIVE KeptSteps(_)
KeptSteps(rows) ==
    IF Len(rows) = 0 THEN <<>>
    ELSE LET row == rows[1]
         IN  IF row.cols < 3 \/ row.flow = <<>> \/ row.duration = <<>>
             THEN KeptSteps(Tail(rows))
             ELSE <<[targetGasFlow |-> row.flow[1],
                     durationSeconds |-> row.duration[1]]>> \o KeptSteps(Tail(rows))

\* C22 as stated: rows with fewer than 3 fields or a non-numeric flow or
\* duration are dropped, the others are kept in order, and no error is
\* raised because of dropped rows, however many are dropped.
C22_DroppingNeverFatal ==
    GasFileParsed =>
        /\ gasFlowData = KeptSteps(TheGasRows)
        /\ ~isNaN(currentConfig.gasConcCyl2) => gasConcAvailable

\* C22 as the code has it: the same, as long as one row is kept; when every
\* row is dropped parseGasFlowFile throws, and the run goes on without a
\* profile.
C22_DroppingFatalWhenNoneKept ==
    GasFileParsed =>
        /\ gasFlowData = KeptSteps(TheGasRows)
        /\ ~isNaN(currentConfig.gasConcCyl2) =>
              (gasConcAvailable <=> KeptSteps(TheGasRows) # <<>>)
        /\ KeptSteps(TheGasRows) = <<>> =>
              /\ ~gasConcAvailable
              /\ published.gasConcProfile = <<(<<>>)>>

\* two rows dropped between two kept rows
C22_Witness ==
    /\ GasFileParsed
    /\ Len(TheGasRows) = 3
    /\ TheGasRows[1] = GasRow(3, <<0>>, <<2>>)
    /\ TheGasRows[2] = GasRow(2, <<1>>, NaN)
    /\ TheGasRows[3] = GasRow(4, <<2>>, <<3>>)
    /\ gasConcAvailable
    /\ gasFlowData = <<[targetGasFlow |-> 0, durationSeconds |-> 2],
                       [targetGasFlow |-> 2, durationSeconds |-> 3]>>

\* every row was dropped and parseGasFlowFile has thrown
C22_AllDroppedReached ==
    /\ GasFileParsed
    /\ Len(TheGasRows) = MaxGasRows
    /\ KeptSteps(TheGasRows) = <<>>
    /\ ~isNaN(currentConfig.gasConcCyl2)
    /\ ~gasConcAvailable

---------------------------------------------------------------------------
\* Signal and outlier suppression together (under SpecRun).

\* the impedance of row r of the file of table n as parseFloat reads it
RawImpedance(n, r) ==
    LET row == RowsOfTable(n)[r]
    IN  IF row.cols < MinRequiredCols THEN NaN ELSE row.impedance

\* the impedance the signals of table n were computed from
RawBaseline(n) ==
    LET b == BaselineRow(sensorDataTablesResult[n].data, refTimeMinutes)
    IN  IF b = 0 THEN NaN ELSE RawImpedance(n, b)

ImpedanceOutlier(z) == ~isNaN(z) /\ z[1] > ImpedanceLimit

\* C30: in every table a reading's signal is defined only if its output
\* impedance is defined (a reading whose impedance was suppressed as an
\* outlier has no signal), and no defined signal was computed from a
\* baseline impedance that is itself an outlier.
C30_SignalNeedsImpedance ==
    \A n \in 1..Len(sensorDataTablesResult) :
        LET table == sensorDataTablesResult[n].data
        IN  \A r \in 1..Len(table) :
                ~isNaN(table[r].signal) =>
                    /\ ~isNaN(table[r].impedance)
                    /\ ~ImpedanceOutlier(RawBaseline(n))

\* a reading above 1e12 whose impedance is suppressed and whose signal,
\* computed before, is kept
C30_SuppressedWithSignal ==
    \E n \in 1..Len(sensorDataTablesResult) :
        LET table == sensorDataTablesResult[n].data
        IN  \E r \in 1..Len(table) :
                /\ ImpedanceOutlier(RawImpedance(n, r))
                /\ isNaN(table[r].impedance)
                /\ ~isNaN(table[r].signal)

\* a baseline above 1e12 from which a signal was computed
C30_OutlierBaselineUsed ==
    \E n \in 1..Len(sensorDataTablesResult) :
        LET table == sensorDataTablesResult[n].data
        IN  /\ ImpedanceOutlier(RawBaseline(n))
            /\ \E r \in 1..Len(table) : ~isNaN(table[r].signal)

\* C30 as the code has it: a signal is defined only if the reading's
\* impedance and the baseline are defined as parsed (and the baseline is
\* not 0); the suppression of line 246 comes after the signal, so a reading
\* above 1e12 keeps the signal computed from its parsed impedance, and a
\* baseline above 1e12 is used as parsed. An undefined output impedance
\* beside a defined signal is always a suppressed one.
C30_SignalFromParsedImpedance ==
    \A n \in 1..Len(sensorDataTablesResult) :
        LET table == sensorDataTablesResult[n].data
            b == RawBaseline(n)
        IN  \A r \in 1..Len(table) :
                LET z == RawImpedance(n, r)
                    signal == table[r].signal
                IN  /\ ~isNaN(signal) =>
                          /\ ~isNaN(z) /\ ~isNaN(b) /\ b[1] # 0
                          /\ isNaN(table[r].impedance) => ImpedanceOutlier(z)
                    /\ (/\ ImpedanceOutlier(z) \/ ImpedanceOutlier(b)
                        /\ ~isNaN(z) /\ ~isNaN(b) /\ b[1] # 0
                        /\ ~SignalOutlier(z[1], b[1])) =>
                          /\ ~isNaN(signal)
                          /\ signal[2] > 0
                          /\ signal[1] * b[1] = (z[1] - b[1]) * 100 * signal[2]

\* baseline 1e12, reading 2e12: the impedance is suppressed, the signal 100
\* is kept
C30_Witness ==
    \E n \in 1..Len(sensorDataTablesResult) :
        LET table == sensorDataTablesResult[n].data
        IN  \E r \in 1..Len(table) :
                /\ RawBaseline(n) = <<ImpedanceLimit>>
                /\ RawImpedance(n, r) = <<2 * ImpedanceLimit>>
                /\ isNaN(table[r].impedance)
                /\ table[r].signal = Num(100)

====
